---- MODULE Spec2Model ----
(***************************************************************************)
(* Model of streamlit/CortexSearchSampleApp.py: a Streamlit chat front-end *)
(* over a Cortex Search service.  The script is re-executed from the top   *)
(* on every user interaction ("run"); st.session_state survives between    *)
(* runs.  One action of the model is one whole run of main() triggered by  *)
(* one user event, together with the answers of the external services      *)
(* (catalog, search, completion) during that run.                          *)
(*                                                                         *)
(* Text is modelled by TLA+ strings.  Characters outside ASCII that the    *)
(* source uses are written with ASCII stand-ins of the same length         *)
(* (Ellipsis, EmDash) or as transliterated constants (labels, messages).   *)
(***************************************************************************)
EXTENDS Integers, Sequences, FiniteSets, TLC

VARIABLES
    session_state,        \* st.session_state: a function from keys to values
    widgets,              \* what the page of the last run rendered, and the values the
                          \* un-keyed widgets hold between runs
    catalog,              \* the search services the account can see (indices of ServiceRows)
    last_run,             \* what the last run did: outcome, search request, messages shown
    filter_value_origin,  \* history variable: the (service, column) under which the user
                          \* chose the filter value now held in session_state
    runs_left,            \* runs of the script the session is still followed for
    calc                  \* input and output of the pure function under check

vars == <<session_state, widgets, catalog, last_run, filter_value_origin, runs_left, calc>>

----------------------------------------------------------------------------
(* Bounds of the model *)

MaxRuns == 4          \* runs of the script a session is followed for
MaxFilterRuns == 6    \* ... in the sessions that only work the filter
MaxLog == 3           \* longest conversation log given to build_history_text
MaxK == 4             \* largest history window given to build_history_text
MaxChunkLen == 163    \* longest excerpt given to render_context_table_md
MaxCols == 3          \* longest column list given to the request-column computation
MaxResults == 3       \* longest result list given to the context builder

----------------------------------------------------------------------------
(* Configuration of the program *)

DB_HINT_DEFAULT == "CORTEX_SEARCH_SAMPLE"

MODELS == <<"claude-4-sonnet", "claude-3-7-sonnet", "claude-3-5-sonnet",
            "llama4-maverick", "llama4-scout">>

MANUAL_SENTINEL == "<manual>"

DefaultSearchColumn == "chunk"

DefaultRequestColumns == <<"chunk", "file_url", "relative_path">>

ManualColumns == <<"chunk", "relative_path", "file_url", "language">>

NumChunksDefault == 5
NumChunksMin == 1
NumChunksMax == 10
HistoryKDefault == 3
HistoryKMin == 0
HistoryKMax == 10
ExcerptLimit == 160

Ellipsis == "~"       \* stands for U+2026, one character
EmDash == "-"         \* stands for U+2014, one character

CompleteErrorPrefix == "Model call failed: "

----------------------------------------------------------------------------
(* Python idioms *)

InSeq(x, s) == \E i \in 1..Len(s) : s[i] = x

IndexOf(x, s) == CHOOSE i \in 1..Len(s) : s[i] = x /\ \A j \in 1..(i - 1) : s[j] # x

Has(d, k) == k \in DOMAIN d

Put(d, k, v) == [x \in (DOMAIN d) \cup {k} |-> IF x = k THEN v ELSE d[x]]

GetOr(d, k, dflt) == IF Has(d, k) THEN d[k] ELSE dflt

SetDefault(d, k, v) == IF Has(d, k) THEN d ELSE Put(d, k, v)

Min(a, b) == IF a < b THEN a ELSE b

Max(a, b) == IF a > b THEN a ELSE b

CharAt(s, i) == SubSeq(s, i, i)

RECURSIVE Join(_, _)
Join(sep, parts) ==
    IF Len(parts) = 0 THEN ""
    ELSE IF Len(parts) = 1 THEN parts[1]
    ELSE parts[1] \o sep \o Join(sep, Tail(parts))

\* "".join(parts[lo..hi]), by halves
RECURSIVE ConcatRange(_, _, _)
ConcatRange(parts, lo, hi) ==
    IF lo > hi THEN ""
    ELSE IF lo = hi THEN parts[lo]
    ELSE ConcatRange(parts, lo, (lo + hi) \div 2)
         \o ConcatRange(parts, (lo + hi) \div 2 + 1, hi)

Concat(parts) == ConcatRange(parts, 1, Len(parts))

----------------------------------------------------------------------------
(* Text helpers: str.strip, str.strip('"'), str.split, "." in s *)

SpaceChars == {" ", "\t", "\n"}

QuoteChars == {"\""}

RECURSIVE LStrip(_, _)
LStrip(s, chars) ==
    IF Len(s) > 0 /\ CharAt(s, 1) \in chars THEN LStrip(SubSeq(s, 2, Len(s)), chars) ELSE s

RECURSIVE RStrip(_, _)
RStrip(s, chars) ==
    IF Len(s) > 0 /\ CharAt(s, Len(s)) \in chars
    THEN RStrip(SubSeq(s, 1, Len(s) - 1), chars) ELSE s

Strip(s) == RStrip(LStrip(s, SpaceChars), SpaceChars)

StripQuotes(s) == RStrip(LStrip(s, QuoteChars), QuoteChars)

HasChar(s, ch) == \E i \in 1..Len(s) : CharAt(s, i) = ch

\* the pieces of two adjacent texts, the last piece of the first text running on into
\* the first piece of the second
SplitJoin(left, right) ==
    SubSeq(left, 1, Len(left) - 1) \o <<left[Len(left)] \o right[1]>> \o Tail(right)

\* s.split(sep) for a one-character separator, by halves
RECURSIVE Split(_, _)
Split(s, sep) ==
    IF Len(s) = 0 THEN <<"">>
    ELSE IF Len(s) = 1 THEN (IF s = sep THEN <<"", "">> ELSE <<s>>)
    ELSE SplitJoin(Split(SubSeq(s, 1, Len(s) \div 2), sep),
                   Split(SubSeq(s, Len(s) \div 2 + 1, Len(s)), sep))

\* rd.get(k1) or rd.get(k2) or "" on a normalised row
GetEither(rd, k1, k2) ==
    IF Has(rd, k1) /\ rd[k1] # "" THEN rd[k1]
    ELSE IF Has(rd, k2) /\ rd[k2] # "" THEN rd[k2]
    ELSE ""

----------------------------------------------------------------------------
(* The data platform: what the catalog statements answer.  Rows are given  *)
(* as df_rows_to_dicts leaves them (lower-case keys).                      *)

DatabaseRows == << [name |-> "CORTEX_SEARCH_SAMPLE"],
                   [database_name |-> "DB2"],
                   [name |-> "DB2"] >>

SchemaRows(db) ==
    IF db = "CORTEX_SEARCH_SAMPLE" THEN << [name |-> "PUBLIC"], [schema_name |-> "S2"] >>
    ELSE IF db = "DB2" THEN << [name |-> "S2"] >>
    ELSE << >>

ServiceRows == <<
    [database_name |-> "CORTEX_SEARCH_SAMPLE", schema_name |-> "PUBLIC", name |-> "SVC_A",
     search_column |-> "chunk", columns |-> "CATEGORY, chunk"],
    [database |-> "CORTEX_SEARCH_SAMPLE", schema |-> "S2", name |-> "SVC_B",
     columns |-> "CHUNK,language,"] >>

\* the rows (numbers of ServiceRows) a SHOW CORTEX SEARCH SERVICES statement of the
\* given scope returns
ShowServices(cat, scope) ==
    LET visible(i) ==
            /\ i \in cat
            /\ \/ scope.kind = "account"
               \/ /\ scope.kind = "database"
                  /\ GetEither(ServiceRows[i], "database_name", "database") = scope.db
               \/ /\ scope.kind = "schema"
                  /\ GetEither(ServiceRows[i], "database_name", "database") = scope.db
                  /\ GetEither(ServiceRows[i], "schema_name", "schema") = scope.schema
    IN SelectSeq([i \in 1..Len(ServiceRows) |-> i], visible)

----------------------------------------------------------------------------
(* Catalog discovery *)

build_fq_name(db, schema, name) ==
    LET n == Strip(name)
    IN IF HasChar(n, ".") THEN n
       ELSE db \o "." \o schema \o ".\"" \o StripQuotes(n) \o "\""

\* the de-duplicating loop of list_databases / list_schemas
RECURSIVE collect_names(_, _, _, _)
collect_names(dicts, k1, k2, names) ==
    IF Len(dicts) = 0 THEN names
    ELSE LET n == Strip(GetEither(dicts[1], k1, k2))
         IN collect_names(Tail(dicts), k1, k2,
                          IF n # "" /\ ~InSeq(n, names) THEN Append(names, n) ELSE names)

list_databases == collect_names(DatabaseRows, "name", "database_name", << >>)

list_schemas(db) ==
    IF db = "" THEN << >>
    ELSE collect_names(SchemaRows(db), "name", "schema_name", << >>)

\* list_schemas of every database the selectbox offers, computed once
SchemasOf == [db \in {""} \cup {list_databases[i] : i \in 1..Len(list_databases)} |->
                 list_schemas(db)]

\* cols_avail = [c.strip() for c in cols_raw.split(",") if c.strip()]
RECURSIVE strip_nonempty(_)
strip_nonempty(tokens) ==
    IF Len(tokens) = 0 THEN << >>
    ELSE (IF Strip(tokens[1]) # "" THEN <<Strip(tokens[1])>> ELSE << >>)
         \o strip_nonempty(Tail(tokens))

\* one row of the statement: its name and the service entry made of it
service_of_row(rd) ==
    LET db == Strip(GetEither(rd, "database_name", "database"))
        schema == Strip(GetEither(rd, "schema_name", "schema"))
        name == Strip(GetOr(rd, "name", ""))
        search_col == IF GetOr(rd, "search_column", "") # "" THEN rd["search_column"]
                      ELSE DefaultSearchColumn
        cols_raw == GetOr(rd, "columns", "")
    IN [name |-> name,
        service |-> [fq_name |-> build_fq_name(db, schema, name),
                     db |-> db,
                     schema |-> schema,
                     short_name |-> StripQuotes(name),
                     search_column |-> search_col,
                     columns_available |-> strip_nonempty(Split(cols_raw, ","))]]

\* service_of_row of every row of the platform, computed once
ServiceOfRow == [i \in 1..Len(ServiceRows) |-> service_of_row(ServiceRows[i])]

\* the inner loop over the rows of one statement
RECURSIVE services_of_rows(_, _, _)
services_of_rows(rows, services, seen) ==
    IF Len(rows) = 0 THEN services
    ELSE LET svc == ServiceOfRow[rows[1]].service
             key == <<svc.db, svc.schema, svc.fq_name>>
         IN IF ServiceOfRow[rows[1]].name = "" \/ key \in seen
            THEN services_of_rows(Tail(rows), services, seen)
            ELSE services_of_rows(Tail(rows), Append(services, svc), seen \cup {key})

service_queries(db_hint, schema_hint) ==
    (IF db_hint # "" /\ schema_hint # ""
        THEN << [kind |-> "schema", db |-> db_hint, schema |-> schema_hint] >> ELSE << >>)
    \o (IF db_hint # ""
        THEN << [kind |-> "database", db |-> db_hint, schema |-> ""] >> ELSE << >>)
    \o << [kind |-> "account", db |-> "", schema |-> ""],
          [kind |-> "account", db |-> "", schema |-> ""] >>

\* the outer loop: scopes from narrow to wide, stopping at the first that yields services
RECURSIVE try_queries(_, _)
try_queries(cat, queries) ==
    IF Len(queries) = 0 THEN << >>
    ELSE LET services == services_of_rows(ShowServices(cat, queries[1]), << >>, {})
         IN IF Len(services) > 0 THEN services ELSE try_queries(cat, Tail(queries))

load_cortex_services(cat, db_hint, schema_hint) ==
    try_queries(cat, service_queries(db_hint, schema_hint))

----------------------------------------------------------------------------
(* str.lower / str.upper, str.replace *)

UpperLetters == "ABCDEFGHIJKLMNOPQRSTUVWXYZ"

LowerLetters == "abcdefghijklmnopqrstuvwxyz"

\* the character map from the letters of one alphabet to those of the other
CharMap(from, to) ==
    [c \in {CharAt(from, i) : i \in 1..Len(from)} |->
        CharAt(to, CHOOSE i \in 1..Len(from) : CharAt(from, i) = c)]

ToLowerChar == CharMap(UpperLetters, LowerLetters)

ToUpperChar == CharMap(LowerLetters, UpperLetters)

MapChars(s, map) ==
    Concat([i \in 1..Len(s) |->
               IF CharAt(s, i) \in DOMAIN map THEN map[CharAt(s, i)] ELSE CharAt(s, i)])

\* names whose lower and upper case are computed once and looked up afterwards
KnownNames ==
    {"chunk", "CHUNK", "Chunk", "file_url", "FILE_URL", "relative_path", "RELATIVE_PATH",
     "language", "LANGUAGE", "CATEGORY", "category", "score", "body"}

LowerOfKnown == [s \in KnownNames |-> MapChars(s, ToLowerChar)]

UpperOfKnown == [s \in KnownNames |-> MapChars(s, ToUpperChar)]

Lower(s) == IF s \in KnownNames THEN LowerOfKnown[s] ELSE MapChars(s, ToLowerChar)

Upper(s) == IF s \in KnownNames THEN UpperOfKnown[s] ELSE MapChars(s, ToUpperChar)

\* s.replace(ch, by) for a one-character ch
Replace(s, ch, by) ==
    Concat([i \in 1..Len(s) |-> IF CharAt(s, i) = ch THEN by ELSE CharAt(s, i)])

\* Python's None, a value distinct from every text of the model
None == "<None>"

\* x or y on optional text: x unless it is None or empty
OrElse(x, y) == IF x # None /\ x # "" THEN x ELSE y

\* r.get(key) on a result row
RowGet(r, key) == IF Has(r, key) THEN r[key] ELSE None

----------------------------------------------------------------------------
(* Request shaping *)

\* {a.lower(): a for a in allowed}: a later entry replaces an earlier one of the same key
allowed_map(allowed) ==
    [lc \in {Lower(allowed[i]) : i \in 1..Len(allowed)} |->
        allowed[CHOOSE i \in 1..Len(allowed) :
                    /\ Lower(allowed[i]) = lc
                    /\ \A j \in (i + 1)..Len(allowed) : Lower(allowed[j]) # lc]]

RECURSIVE intersect_loop(_, _, _, _)
intersect_loop(candidates, amap, out, seen) ==
    IF Len(candidates) = 0 THEN out
    ELSE LET lc == Lower(candidates[1])
         IN IF lc \in DOMAIN amap /\ amap[lc] \notin seen
            THEN intersect_loop(Tail(candidates), amap, Append(out, amap[lc]),
                                seen \cup {amap[lc]})
            ELSE intersect_loop(Tail(candidates), amap, out, seen)

intersect_preserving_order_caseaware(candidates, allowed) ==
    intersect_loop(candidates, allowed_map(allowed), << >>, {})

\* the intersection alone, without the search column put in front
request_columns_bare(columns, search_col, columns_available) ==
    intersect_preserving_order_caseaware(columns, columns_available)

\* the column list query_cortex_search_service sends
request_columns_of(columns, search_col, columns_available) ==
    LET inter == intersect_preserving_order_caseaware(columns, columns_available)
        amap == allowed_map(columns_available)
        lsc == Lower(search_col)
    IN IF ~\E i \in 1..Len(inter) : Lower(inter[i]) = lsc
       THEN <<IF lsc \in DOMAIN amap THEN amap[lsc] ELSE search_col>> \o inter
       ELSE inter

\* the text of one result row: the search column under its name as given, lower-cased or
\* upper-cased, else empty
row_content(r, search_col) ==
    OrElse(RowGet(r, search_col),
           OrElse(RowGet(r, Lower(search_col)),
                  OrElse(RowGet(r, Upper(search_col)), "")))

context_row_of(i, r, search_col) ==
    [idx |-> i,
     relative_path |-> OrElse(RowGet(r, "relative_path"), RowGet(r, "RELATIVE_PATH")),
     file_url |-> OrElse(RowGet(r, "file_url"), RowGet(r, "FILE_URL")),
     chunk |-> row_content(r, search_col),
     score |-> OrElse(RowGet(r, "score"), RowGet(r, "SCORE"))]

\* an entry numbered from 0
context_line_from_zero(i, r, search_col) ==
    "Context document " \o ToString(i - 1) \o ": " \o row_content(r, search_col) \o "\n"

context_line_of(i, r, search_col) ==
    "Context document " \o ToString(i) \o ": " \o row_content(r, search_col) \o "\n"

\* the loop of query_cortex_search_service over the results: context_rows and lines
build_context(results, search_col) ==
    [context_rows |-> [i \in 1..Len(results) |-> context_row_of(i, results[i], search_col)],
     lines |-> [i \in 1..Len(results) |-> context_line_of(i, results[i], search_col)],
     context_text |-> Concat([i \in 1..Len(results) |->
                                 context_line_of(i, results[i], search_col)])]

----------------------------------------------------------------------------
(* Conversation window *)

\* the first k turns instead of the last k
FirstK(chat_history, k) ==
    SubSeq(chat_history, 1, Min(k, Len(chat_history)))

\* chat_history[-k:] for k > 0
LastK(chat_history, k) ==
    SubSeq(chat_history, Max(Len(chat_history) - k, 0) + 1, Len(chat_history))

RECURSIVE history_messages(_)
history_messages(turns) ==
    IF Len(turns) = 0 THEN << >>
    ELSE << "User: " \o turns[1].question, "Assistant: " \o turns[1].answer >>
         \o history_messages(Tail(turns))

build_history_text(chat_history, k) ==
    IF k <= 0 \/ Len(chat_history) = 0 THEN ""
    ELSE Join("\n", history_messages(LastK(chat_history, k)))

----------------------------------------------------------------------------
(* Context table *)

TableHeader == "| # | PDF | URL | Excerpt |\n|---:|---|---|---|\n"

\* a cut excerpt that is not marked as cut
excerpt_head_unmarked(chunk) ==
    SubSeq(chunk, 1, Min(Len(chunk), ExcerptLimit))

excerpt_head(chunk) ==
    IF Len(chunk) > ExcerptLimit THEN SubSeq(chunk, 1, ExcerptLimit) \o Ellipsis ELSE chunk

\* the cells of a row as they are written into the table
pdf_disp(r) == Replace(OrElse(r.relative_path, ""), "|", "\\|")

url_disp(r) == Replace(OrElse(r.file_url, EmDash), "|", "\\|")

head_disp(r) == Replace(excerpt_head(OrElse(r.chunk, "")), "|", "\\|")

table_row_md(r) ==
    "| " \o ToString(r.idx) \o " | " \o pdf_disp(r) \o " | " \o url_disp(r)
    \o " | " \o head_disp(r) \o " |\n"

render_context_table_md(context_rows) ==
    IF Len(context_rows) = 0 THEN ""
    ELSE TableHeader \o Concat([i \in 1..Len(context_rows) |-> table_row_md(context_rows[i])])

----------------------------------------------------------------------------
(* Filter value resolver *)

DistinctLimit == 200

ProbeTerms == <<"", "*", "a", "the", "no">>

\* rows DESCRIBE CORTEX SEARCH SERVICE answers for a service
DescribeRows(short_name) ==
    IF short_name = "SVC_A" THEN << [property |-> "target_table", value |-> "DOCS"] >>
    ELSE IF short_name = "SVC_B" THEN << [key |-> "query", value |-> "SELECT * FROM T;"] >>
    ELSE << >>

\* the V column of the SELECT DISTINCT statement over the service's source
DistinctSqlRows(column) ==
    IF column = "CATEGORY" THEN <<"auto", None, "auto ">>
    ELSE IF column = "language" THEN <<"ja">>
    ELSE << >>

\* rows a sample search answers for a probe term
SampleRows(column, term) ==
    IF column = "chunk" /\ term = "*" THEN << [chunk |-> "c1"], [chunk |-> "c1 "] >>
    ELSE IF column = "chunk" /\ term = "a" THEN << [chunk |-> "c2"] >>
    ELSE IF column = "CATEGORY" /\ term = "*" THEN << [category |-> "fire"] >>
    ELSE << >>

RECURSIVE props_of_rows(_, _)
props_of_rows(dicts, props) ==
    IF Len(dicts) = 0 THEN props
    ELSE LET rd == dicts[1]
             key == Upper(Strip(OrElse(RowGet(rd, "property"),
                                OrElse(RowGet(rd, "key"), OrElse(RowGet(rd, "name"), "")))))
             val == Strip(OrElse(RowGet(rd, "value"),
                          OrElse(RowGet(rd, "property_value"), OrElse(RowGet(rd, "text"), ""))))
         IN props_of_rows(Tail(dicts), IF key # "" THEN Put(props, key, val) ELSE props)

EmptyDict == [x \in {} |-> ""]

\* raises: whether the DESCRIBE statement fails
describe_cortex_service_properties(short_name, raises) ==
    IF raises THEN EmptyDict ELSE props_of_rows(DescribeRows(short_name), EmptyDict)

RECURSIVE distinct_strings(_, _)
distinct_strings(rows, values) ==
    IF Len(rows) = 0 THEN values
    ELSE IF rows[1] = None THEN distinct_strings(Tail(rows), values)
    ELSE LET v == Strip(rows[1])
         IN distinct_strings(Tail(rows), IF InSeq(v, values) THEN values ELSE Append(values, v))

\* the loop over the results of one probe; stops once sample_size values are held
RECURSIVE sample_results(_, _, _, _)
sample_results(rows, column, values, sample_size) ==
    IF Len(rows) = 0 THEN values
    ELSE LET val == OrElse(RowGet(rows[1], column),
                       OrElse(RowGet(rows[1], Lower(column)), RowGet(rows[1], Upper(column))))
             v == IF val = None THEN "" ELSE Strip(val)
         IN IF val = None \/ v = "" \/ InSeq(v, values)
            THEN sample_results(Tail(rows), column, values, sample_size)
            ELSE IF Len(values) + 1 >= sample_size THEN Append(values, v)
            ELSE sample_results(Tail(rows), column, Append(values, v), sample_size)

\* the loop over the probe terms; probe_raises[i] tells whether probe i fails
RECURSIVE probe_loop(_, _, _, _, _)
probe_loop(i, column, values, sample_size, probe_raises) ==
    IF i > Len(ProbeTerms) THEN values
    ELSE IF probe_raises[i] THEN probe_loop(i + 1, column, values, sample_size, probe_raises)
    ELSE LET got == sample_results(SampleRows(column, ProbeTerms[i]), column, values,
                                   sample_size)
         IN IF Len(got) > 0 THEN got
            ELSE probe_loop(i + 1, column, got, sample_size, probe_raises)

\* handle_raises: whether resolving the service handle fails
get_distinct_values_via_search(column, sample_size, handle_raises, probe_raises) ==
    IF handle_raises THEN << >>
    ELSE probe_loop(1, column, << >>, sample_size, probe_raises)

\* env: which of the external calls of the resolver fail in this run
get_distinct_values_for_column(meta, column, max_values, env) ==
    IF column = "" THEN << >>
    ELSE LET props == describe_cortex_service_properties(meta.short_name, env.describe_raises)
             source_table == OrElse(RowGet(props, "TARGET_TABLE"),
                                    OrElse(RowGet(props, "SOURCE_TABLE"), ""))
             query_text == OrElse(RowGet(props, "QUERY"),
                                  OrElse(RowGet(props, "STATEMENT_TEXT"), ""))
             has_sql == source_table # "" \/ query_text # ""
             values == IF has_sql /\ ~env.sql_raises
                       THEN distinct_strings(DistinctSqlRows(column), << >>)
                       ELSE << >>
         IN IF Len(values) > 0 THEN values
            ELSE get_distinct_values_via_search(column, max_values, env.handle_raises,
                                                env.probe_raises)

NoProbeFails == [i \in 1..Len(ProbeTerms) |-> FALSE]

\* the resolver's external calls all succeeding
ResolverOk ==
    [describe_raises |-> FALSE, sql_raises |-> FALSE, handle_raises |-> FALSE,
     probe_raises |-> NoProbeFails]

\* the failure patterns of the resolver's external calls the model explores
ResolverEnvs ==
    { ResolverOk,
      [describe_raises |-> TRUE, sql_raises |-> FALSE, handle_raises |-> FALSE,
       probe_raises |-> [NoProbeFails EXCEPT ![1] = TRUE]] }

----------------------------------------------------------------------------
(* Widgets.  A widget answers the value the user gave it when the user's   *)
(* event of this run is on it, and its default otherwise.                  *)

NoEvent == [widget |-> "rerun", value |-> ""]

WidgetValue(ev, name, options, default) ==
    IF ev.widget = name /\ InSeq(ev.value, options) THEN ev.value ELSE default

SliderValue(ev, name, lo, hi, default) ==
    IF ev.widget = name /\ ev.value \in lo..hi THEN ev.value ELSE default

Clicked(ev, name) == ev.widget = name

NoOrigin == [service |-> None, column |-> None]

\* the state a run hands from one statement of init_sidebar to the next
\*   ss         st.session_state so far
\*   prev       the widgets of the page the user acted on
\*   rendered   widgets drawn so far
\*   manual     text held by the fully-qualified-name input
\*   svc_opts, svc_val   options and value held by the service selectbox
\*   origin     service and column the held filter value was chosen under
\*   reset      the filter block decided to re-resolve the value options
\*   status     "running", "returned" (early return), "done" or "raised"
\*   cleared    the clear button was clicked
SidebarStart(ss, w, origin) ==
    [ss |-> ss, prev |-> w, rendered |-> {}, manual |-> "", svc_opts |-> << >>,
     svc_val |-> "", origin |-> origin, reset |-> FALSE, status |-> "running",
     raised_in |-> "", services_found |-> FALSE, cleared |-> FALSE]

Raise(c, where) == [c EXCEPT !.status = "raised", !.raised_in = where]

Draw(c, names) == [c EXCEPT !.rendered = @ \cup names]

SetKey(c, k, v) == [c EXCEPT !.ss = Put(@, k, v)]

----------------------------------------------------------------------------
(* init_sidebar, statement by statement.  Every step leaves a run that has *)
(* raised or returned as it is.                                            *)

sidebar_hints(c) ==
    [c EXCEPT !.ss = SetDefault(SetDefault(@, "db_hint", DB_HINT_DEFAULT), "schema_hint", "")]

default_db(db_hint, databases) ==
    IF InSeq(db_hint, <<"">> \o databases) THEN db_hint
    ELSE IF InSeq(DB_HINT_DEFAULT, databases) THEN DB_HINT_DEFAULT
    ELSE ""

sidebar_database(c, ev, fail) ==
    IF c.status # "running" THEN c
    ELSE IF fail = "list_databases" THEN Raise(c, fail)
    ELSE Draw(SetKey(c, "db_hint",
                     WidgetValue(ev, "database", <<"">> \o list_databases,
                                 default_db(c.ss["db_hint"], list_databases))),
              {"database"})

default_schema(schema_hint, schemas) ==
    IF InSeq(schema_hint, <<"">> \o schemas) THEN schema_hint ELSE ""

sidebar_schema(c, ev, fail) ==
    IF c.status # "running" THEN c
    ELSE IF c.ss["db_hint"] # "" /\ fail = "list_schemas" THEN Raise(c, fail)
    ELSE Draw(SetKey(c, "schema_hint",
                     WidgetValue(ev, "schema", <<"">> \o SchemasOf[c.ss["db_hint"]],
                                 default_schema(c.ss["schema_hint"],
                                                SchemasOf[c.ss["db_hint"]]))),
              {"schema"})

\* meta of a service entered by hand
manual_meta_of(manual, parts) ==
    [fq_name |-> manual,
     db |-> parts[1],
     schema |-> IF Len(parts) > 1 THEN parts[2] ELSE "",
     short_name |-> StripQuotes(parts[Len(parts)]),
     search_column |-> DefaultSearchColumn,
     columns_available |-> ManualColumns]

manual_meta(manual) == manual_meta_of(manual, Split(manual, "."))

\* the text the fully-qualified-name input answers
manual_text(c, ev) ==
    IF ev.widget = "manual" THEN ev.value
    ELSE IF "manual" \in c.prev.rendered THEN c.prev.manual
    ELSE ""

\* the branch taken when no service was found: it ends init_sidebar
sidebar_manual(c, manual) ==
    [c EXCEPT !.ss = IF manual # ""
                     THEN Put(Put(@, "selected_cortex_search_service", manual),
                              "selected_cortex_meta", manual_meta(manual))
                     ELSE @,
              !.rendered = @ \cup {"manual"},
              !.manual = manual,
              !.status = "returned"]

service_options(services) == [i \in 1..Len(services) |-> services[i].fq_name]

\* next((s for s in services if s["fq_name"] == chosen), None)
service_named(services, chosen) ==
    services[CHOOSE i \in 1..Len(services) :
                 /\ services[i].fq_name = chosen
                 /\ \A j \in 1..(i - 1) : services[j].fq_name # chosen]

\* the value the service selectbox answers: it keeps the user's choice while its
\* options stay the same
service_choice(c, ev, options) ==
    WidgetValue(ev, "service", options,
                IF "service" \in c.prev.rendered /\ c.prev.svc_opts = options
                THEN c.prev.svc_val ELSE options[1])

sidebar_selected(c, services, options, chosen) ==
    [c EXCEPT !.ss = Put(Put(@, "selected_cortex_search_service", chosen),
                         "selected_cortex_meta", service_named(services, chosen)),
              !.rendered = @ \cup {"service"},
              !.svc_opts = options,
              !.svc_val = chosen,
              !.services_found = TRUE]

sidebar_services(c, ev, services) ==
    IF Len(services) = 0 THEN sidebar_manual(c, manual_text(c, ev))
    ELSE sidebar_selected(c, services, service_options(services),
                          service_choice(c, ev, service_options(services)))

sidebar_service(c, cat, ev, fail) ==
    IF c.status # "running" THEN c
    ELSE IF fail = "load_cortex_services" THEN Raise(c, fail)
    ELSE sidebar_services(c, ev,
                          load_cortex_services(cat, c.ss["db_hint"], c.ss["schema_hint"]))

sidebar_model(c, ev) ==
    IF c.status # "running" THEN c
    ELSE Draw(SetKey(c, "selected_model",
                     WidgetValue(ev, "model", MODELS,
                                 GetOr(c.ss, "selected_model", MODELS[1]))),
              {"model"})

\* the filter block, first half: defaults of the filter keys and the toggle
filter_column_default(ss, cols) ==
    IF ~Has(ss, "filter_column")
    THEN Put(ss, "filter_column", IF Len(cols) > 0 THEN cols[1] ELSE "")
    ELSE IF Len(cols) > 0 /\ ~InSeq(ss["filter_column"], cols)
    THEN Put(ss, "filter_column", cols[1])
    ELSE ss

filter_defaults(ss, cols) ==
    SetDefault(SetDefault(SetDefault(
        filter_column_default(SetDefault(ss, "filter_enabled", FALSE), cols),
        "filter_value_options", << >>), "filter_value_selected_key", ""),
        "filter_value_manual", "")

sidebar_filter_toggle(c, ev) ==
    IF c.status # "running" THEN c
    ELSE Draw(SetKey(c, "filter_enabled",
                     WidgetValue(ev, "filter_toggle", <<TRUE, FALSE>>,
                                 c.ss["filter_enabled"])),
              {"filter_toggle"})

FilterOn(c) == c.status = "running" /\ c.ss["filter_enabled"]

Cols(c) == c.ss["selected_cortex_meta"].columns_available

\* the column selectbox; it is disabled when the service declares no column
filter_column_choice(ev, ss, cols) ==
    IF Len(cols) = 0 THEN ""
    ELSE WidgetValue(ev, "filter_column", cols,
                     IF InSeq(ss["filter_column"], cols) THEN ss["filter_column"]
                     ELSE cols[1])

sidebar_filter_column(c, ev) ==
    IF ~FilterOn(c) THEN c
    ELSE Draw(SetKey(c, "filter_column", filter_column_choice(ev, c.ss, Cols(c))),
              IF Len(Cols(c)) > 0 THEN {"filter_column"} ELSE {})

KeyChanged(ss, last_key, now) == ~Has(ss, last_key) \/ ss[last_key] # now

\* service / column change detection, and the refresh button
sidebar_filter_detect(c, ev) ==
    IF ~FilterOn(c) THEN c
    ELSE [c EXCEPT
            !.ss = Put(Put(@, "_last_service_key", c.ss["selected_cortex_search_service"]),
                       "_last_filter_column", c.ss["filter_column"]),
            !.reset = \/ KeyChanged(c.ss, "_last_service_key",
                                    c.ss["selected_cortex_search_service"])
                      \/ KeyChanged(c.ss, "_last_filter_column", c.ss["filter_column"])
                      \/ Clicked(ev, "refresh"),
            !.rendered = @ \cup {"refresh"}]

\* re-resolution of the value options and reset of the chosen value
sidebar_filter_refresh(c, renv) ==
    IF ~(FilterOn(c) /\ c.reset) THEN c
    ELSE [c EXCEPT
            !.ss = Put(Put(Put(@, "filter_value_options",
                               get_distinct_values_for_column(
                                   c.ss["selected_cortex_meta"], c.ss["filter_column"],
                                   DistinctLimit, renv)),
                           "filter_value_selected_key", ""),
                       "filter_value_manual", ""),
            !.origin = NoOrigin]

ValueOptions(ss) == <<"", MANUAL_SENTINEL>> \o ss["filter_value_options"]

filter_value_choice(ev, ss, opts) ==
    WidgetValue(ev, "filter_value", opts,
                IF InSeq(ss["filter_value_selected_key"], opts)
                THEN ss["filter_value_selected_key"] ELSE opts[1])

\* the value selectbox
sidebar_filter_value(c, ev) ==
    IF ~FilterOn(c) THEN c
    ELSE [c EXCEPT
            !.ss = Put(@, "filter_value_selected_key",
                       filter_value_choice(ev, c.ss, ValueOptions(c.ss))),
            !.origin = IF ev.widget = "filter_value" /\ InSeq(ev.value, ValueOptions(c.ss))
                       THEN [service |-> c.ss["selected_cortex_search_service"],
                             column |-> c.ss["filter_column"]]
                       ELSE @,
            !.rendered = @ \cup {"filter_value"}]

\* the text input shown while the value selectbox is on the manual entry
sidebar_filter_manual(c, ev) ==
    IF ~(FilterOn(c) /\ c.ss["filter_value_selected_key"] = MANUAL_SENTINEL) THEN c
    ELSE [c EXCEPT
            !.ss = IF ev.widget = "filter_manual" THEN Put(@, "filter_value_manual", ev.value)
                   ELSE @,
            !.origin = IF ev.widget = "filter_manual"
                       THEN [service |-> c.ss["selected_cortex_search_service"],
                             column |-> c.ss["filter_column"]]
                       ELSE @,
            !.rendered = @ \cup {"filter_manual"}]

sidebar_filter_init(c) ==
    IF c.status # "running" THEN c
    ELSE [c EXCEPT !.ss = filter_defaults(@, Cols(c))]

sidebar_filter(c, ev, renv) ==
    sidebar_filter_manual(
        sidebar_filter_value(
            sidebar_filter_refresh(
                sidebar_filter_detect(
                    sidebar_filter_column(
                        sidebar_filter_toggle(sidebar_filter_init(c), ev),
                        ev),
                    ev),
                renv),
            ev),
        ev)

sidebar_sliders(ss, ev) ==
    Put(Put(ss, "num_retrieved_chunks",
            SliderValue(ev, "num_chunks", NumChunksMin, NumChunksMax,
                        GetOr(ss, "num_retrieved_chunks", NumChunksDefault))),
        "history_k",
        SliderValue(ev, "history_k", HistoryKMin, HistoryKMax,
                    GetOr(ss, "history_k", HistoryKDefault)))

sidebar_history(ss, ev) ==
    IF Clicked(ev, "clear") THEN Put(ss, "chat_history", << >>)
    ELSE SetDefault(ss, "chat_history", << >>)

\* history, the two sliders and the clear button
sidebar_tail(c, ev) ==
    IF c.status # "running" THEN c
    ELSE [c EXCEPT !.ss = sidebar_history(sidebar_sliders(@, ev), ev),
                   !.status = "done",
                   !.cleared = Clicked(ev, "clear"),
                   !.rendered = @ \cup {"num_chunks", "history_k", "clear"}]

\* env.fail: the catalog statement that fails in this run, or "none"
init_sidebar(ss, w, origin, cat, ev, env) ==
    sidebar_tail(
        sidebar_filter(
            sidebar_model(
                sidebar_service(
                    sidebar_schema(
                        sidebar_database(sidebar_hints(SidebarStart(ss, w, origin)),
                                         ev, env.fail),
                        ev, env.fail),
                    cat, ev, env.fail),
                ev),
            ev, env.resolver),
        ev)

----------------------------------------------------------------------------
(* The question pipeline *)

NoFilter == [x \in {} |-> ""]

\* {"@eq": {column: value}}
EqFilter(column, value) == [x \in {"@eq"} |-> [y \in {column} |-> value]]

effective_filter_value(ss) ==
    IF GetOr(ss, "filter_value_selected_key", "") = MANUAL_SENTINEL
    THEN GetOr(ss, "filter_value_manual", "")
    ELSE GetOr(ss, "filter_value_selected_key", "")

\* main, "filter final value": the filter the search is sent with
filter_obj_of(ss) ==
    IF /\ GetOr(ss, "filter_enabled", FALSE)
       /\ GetOr(ss, "filter_column", "") # ""
       /\ effective_filter_value(ss) # ""
    THEN EqFilter(ss["filter_column"], effective_filter_value(ss))
    ELSE NoFilter

SystemText == "You are an accurate and concise assistant. Answer only from the history and context below. Do not guess; say the material does not settle it."

InstructionsText == "Steps:\n1) Grasp the context\n2) Answer concisely\n3) Add caveats if needed\n"

build_prompt(history_text, context_text, user_query) ==
    Join("\n\n",
         << "System:\n" \o SystemText,
            "Instructions:\n" \o InstructionsText,
            "Conversation history:\n" \o OrElse(history_text, "(none)"),
            "Context:\n" \o OrElse(context_text, "(not applicable)"),
            "User question:\n" \o user_query >>)

search_request(meta, query, columns, filter, limit) ==
    [db |-> meta.db, schema |-> meta.schema, short_name |-> meta.short_name,
     query |-> query,
     columns |-> request_columns_of(IF Len(columns) > 0 THEN columns
                                    ELSE DefaultRequestColumns,
                                    OrElse(meta.search_column, DefaultSearchColumn),
                                    meta.columns_available),
     filter |-> filter, limit |-> limit]

\* what the service answers: at most limit rows
search_results(env, limit) == SubSeq(env.results, 1, Min(Len(env.results), limit))

search_answer(request, ctx) ==
    [status |-> "ok", raised_in |-> "", requests |-> <<request>>,
     context_text |-> ctx.context_text, context_rows |-> ctx.context_rows]

\* env.fail = "search": the similarity search raises; env.results: what it answers otherwise
query_cortex_search_service(ss, query, columns, filter, env) ==
    IF ~Has(ss, "num_retrieved_chunks")
    THEN [status |-> "raised", raised_in |-> "AttributeError", requests |-> << >>]
    ELSE IF env.fail = "search"
    THEN [status |-> "raised", raised_in |-> "search",
          requests |-> << search_request(ss["selected_cortex_meta"], query, columns, filter,
                                         ss["num_retrieved_chunks"]) >>]
    ELSE search_answer(
            search_request(ss["selected_cortex_meta"], query, columns, filter,
                           ss["num_retrieved_chunks"]),
            build_context(search_results(env, ss["num_retrieved_chunks"]),
                          OrElse(ss["selected_cortex_meta"].search_column,
                                 DefaultSearchColumn)))

\* what a run reports: how it ended, the external calls it issued, the messages it showed
RunReport(c, outcome, asked, raised_in, requests, prompts, complete_raised, shown) ==
    [outcome |-> outcome, asked |-> asked, raised_in |-> raised_in,
     services_found |-> c.services_found, manual_entered |-> c.manual # "",
     cleared |-> c.cleared,
     requests |-> requests, prompts |-> prompts, complete_raised |-> complete_raised,
     shown |-> shown]

RunResult(c, ss, report, extra) ==
    [ss |-> ss, report |-> report, origin |-> c.origin,
     widgets |-> [rendered |-> c.rendered \cup extra, manual |-> c.manual,
                  svc_opts |-> c.svc_opts, svc_val |-> c.svc_val]]

InfoSelectService == "Select a service in the sidebar."

\* try: Complete(...) except Exception as e: the error text
final_text_of(env) ==
    IF env.complete_raises THEN CompleteErrorPrefix \o env.complete_text
    ELSE env.complete_text

StreamStep == 80

\* the texts the placeholder is given one after the other
RECURSIVE stream_bufs(_, _, _)
stream_bufs(full_text, i, buf) ==
    IF i >= Len(full_text) THEN << >>
    ELSE <<buf \o SubSeq(full_text, i + 1, Min(i + StreamStep, Len(full_text)))>>
         \o stream_bufs(full_text, i + StreamStep,
                        buf \o SubSeq(full_text, i + 1, Min(i + StreamStep, Len(full_text))))

\* what the placeholder shows in the end
stream_write_text(full_text) ==
    IF Len(stream_bufs(full_text, 0, "")) = 0 THEN << >>
    ELSE << stream_bufs(full_text, 0, "")[Len(stream_bufs(full_text, 0, ""))] >>

\* a turn that keeps the exception's text without the message around it
new_turn_bare_error(ss, q, user_query, env) ==
    [timestamp |-> env.now, question |-> user_query, answer |-> env.complete_text,
     model |-> ss["selected_model"], contexts |-> q.context_rows]

new_turn(ss, q, user_query, env) ==
    [timestamp |-> env.now, question |-> user_query, answer |-> final_text_of(env),
     model |-> ss["selected_model"], contexts |-> q.context_rows]

\* a log that takes its new turn at the front
append_turn_in_front(ss, turn) ==
    Put(ss, "chat_history", <<turn>> \o GetOr(ss, "chat_history", << >>))

append_turn(ss, turn) ==
    Put(ss, "chat_history", Append(GetOr(ss, "chat_history", << >>), turn))

completion_call(ss, q, user_query) ==
    [model |-> ss["selected_model"],
     prompt |-> build_prompt(build_history_text(GetOr(ss, "chat_history", << >>),
                                                ss["history_k"]),
                             q.context_text, user_query)]

\* main from the search's answer onwards
pipeline_answer(c, ev, env, q) ==
    IF q.status = "raised"
    THEN RunResult(c, c.ss,
                   RunReport(c, "raised", ev.value, q.raised_in, q.requests, << >>, FALSE,
                             << >>),
                   {"chat_input"})
    ELSE RunResult(c, append_turn(c.ss, new_turn(c.ss, q, ev.value, env)),
                   RunReport(c, "answered", ev.value, "", q.requests,
                             << completion_call(c.ss, q, ev.value) >>,
                             env.complete_raises, stream_write_text(final_text_of(env))),
                   {"chat_input"})

pipeline(c, ev, env) ==
    pipeline_answer(c, ev, env,
                    query_cortex_search_service(c.ss, ev.value, DefaultRequestColumns,
                                                filter_obj_of(c.ss), env))

main_body(c, ev, env) ==
    IF c.status = "raised"
    THEN RunResult(c, c.ss,
                   RunReport(c, "raised", "", c.raised_in, << >>, << >>, FALSE, << >>),
                   {})
    ELSE IF ~Has(c.ss, "selected_cortex_meta")
    THEN RunResult(c, c.ss,
                   RunReport(c, "blocked", "", "", << >>, << >>, FALSE,
                             <<InfoSelectService>>),
                   {})
    ELSE IF ev.widget = "chat_input" /\ ev.value # ""
    THEN pipeline(c, ev, env)
    ELSE RunResult(c, c.ss,
                   RunReport(c, "idle", "", "", << >>, << >>, FALSE, << >>),
                   {"chat_input"})

\* one run of the script
main(ss, w, origin, cat, ev, env) ==
    main_body(init_sidebar(ss, w, origin, cat, ev, env), ev, env)

----------------------------------------------------------------------------
(* The session: one action per user event, each a whole run of the script  *)

Questions == {"q1", "q2"}

ManualNames == {"", "DB2.S2.\"SVC_M\""}

FilterTexts == {"typed"}

SliderPicks(lo, hi) == {lo}

ModelPicks == {MODELS[1], MODELS[Len(MODELS)]}

Timestamps == {"2025-10-06T12:00:00"}

ResultRowA == [chunk |-> "premium rules", relative_path |-> "a.pdf",
               file_url |-> "http://x/a.pdf"]

ResultRowB == [CHUNK |-> "claim steps", RELATIVE_PATH |-> "b.pdf"]

ResultLists == { <<ResultRowA, ResultRowB>> }

CatalogFails == {"none", "list_databases", "list_schemas", "load_cortex_services"}

QuietEnv(fail, renv) ==
    [fail |-> fail, resolver |-> renv, results |-> << >>, complete_raises |-> FALSE,
     complete_text |-> "", now |-> ""]

\* the answers of the external services during a run without a question
SidebarEnvs ==
    { QuietEnv(f, ResolverOk) : f \in CatalogFails } \cup { QuietEnv("none", r) : r \in ResolverEnvs }

\* ... during a run after a change of a widget that can make the filter values be
\* resolved again
WidgetEnvs == { QuietEnv("none", r) : r \in ResolverEnvs }

\* ... and after a change of any other sidebar widget
CalmEnvs == { QuietEnv("none", ResolverOk) }

\* ... and during a run with a question
QuestionEnvs ==
    { QuietEnv("none", ResolverOk), QuietEnv("search", ResolverOk) }
    \cup { [QuietEnv("none", ResolverOk) EXCEPT !.results = res, !.complete_raises = FALSE,
                                                !.complete_text = "answer", !.now = t] :
             res \in ResultLists, t \in Timestamps }
    \cup { [QuietEnv("none", ResolverOk) EXCEPT !.results = res, !.complete_raises = TRUE,
                                                !.complete_text = "timeout", !.now = t] :
             res \in ResultLists, t \in Timestamps }

NoWidgets == [rendered |-> {}, manual |-> "", svc_opts |-> << >>, svc_val |-> ""]

NoRun == [outcome |-> "none", asked |-> "", raised_in |-> "",
          services_found |-> FALSE, manual_entered |-> FALSE, cleared |-> FALSE,
          requests |-> << >>, prompts |-> << >>, complete_raised |-> FALSE,
          shown |-> << >>]

NoCalc == [fn |-> "none"]

Init ==
    /\ session_state = EmptyDict
    /\ widgets = NoWidgets
    /\ catalog \in SUBSET (1..Len(ServiceRows))
    /\ last_run = NoRun
    /\ filter_value_origin = NoOrigin
    /\ runs_left = MaxRuns
    /\ calc = NoCalc

Commit(r) ==
    /\ runs_left > 0
    /\ runs_left' = runs_left - 1
    /\ session_state' = r.ss
    /\ widgets' = r.widgets
    /\ filter_value_origin' = r.origin
    /\ last_run' = r.report
    /\ UNCHANGED <<catalog, calc>>

Run(ev, env) == Commit(main(session_state, widgets, filter_value_origin, catalog, ev, env))

Shown(name) == name \in widgets.rendered

Event(name, value) == [widget |-> name, value |-> value]

SeqRange(s) == {s[i] : i \in 1..Len(s)}

\* the page is loaded or re-run without a widget change
Rerun ==
    /\ runs_left > 0
    /\ \E env \in SidebarEnvs : Run(NoEvent, env)

SelectDatabase ==
    /\ Shown("database")
    /\ \E d \in {""} \cup SeqRange(list_databases), env \in CalmEnvs :
          Run(Event("database", d), env)

SelectSchema ==
    /\ Shown("schema")
    /\ \E sc \in {""} \cup SeqRange(SchemasOf[session_state["db_hint"]]),
          env \in CalmEnvs :
          Run(Event("schema", sc), env)

EnterManualService ==
    /\ Shown("manual")
    /\ \E t \in ManualNames, env \in CalmEnvs : Run(Event("manual", t), env)

SelectService ==
    /\ Shown("service")
    /\ \E f \in SeqRange(widgets.svc_opts), env \in WidgetEnvs :
          Run(Event("service", f), env)

SelectModel ==
    /\ Shown("model")
    /\ \E m \in ModelPicks, env \in CalmEnvs : Run(Event("model", m), env)

ToggleFilter ==
    /\ Shown("filter_toggle")
    /\ \E env \in WidgetEnvs :
          Run(Event("filter_toggle", ~session_state["filter_enabled"]), env)

SelectFilterColumn ==
    /\ Shown("filter_column")
    /\ \E col \in SeqRange(session_state["selected_cortex_meta"].columns_available),
          env \in WidgetEnvs :
          Run(Event("filter_column", col), env)

ClickRefresh ==
    /\ Shown("refresh")
    /\ \E env \in WidgetEnvs : Run(Event("refresh", TRUE), env)

SelectFilterValue ==
    /\ Shown("filter_value")
    /\ \E v \in {"", MANUAL_SENTINEL} \cup SeqRange(session_state["filter_value_options"]),
          env \in CalmEnvs :
          Run(Event("filter_value", v), env)

EnterFilterValue ==
    /\ Shown("filter_manual")
    /\ \E t \in FilterTexts \cup {""}, env \in CalmEnvs :
          Run(Event("filter_manual", t), env)

SlideNumChunks ==
    /\ Shown("num_chunks")
    /\ \E n \in SliderPicks(NumChunksMin, NumChunksMax), env \in CalmEnvs :
          Run(Event("num_chunks", n), env)

SlideHistoryK ==
    /\ Shown("history_k")
    /\ \E k \in SliderPicks(HistoryKMin, HistoryKMax), env \in CalmEnvs :
          Run(Event("history_k", k), env)

ClickClear ==
    /\ Shown("clear")
    /\ \E env \in CalmEnvs : Run(Event("clear", TRUE), env)

SubmitQuestion ==
    /\ Shown("chat_input")
    /\ \E q \in Questions, env \in QuestionEnvs : Run(Event("chat_input", q), env)

\* services are created, dropped, granted or revoked between runs (followed while the
\* session has a run left to see the change)
CatalogChange ==
    /\ runs_left > 0
    /\ \E cat \in SUBSET (1..Len(ServiceRows)) : cat # catalog /\ catalog' = cat
    /\ UNCHANGED <<session_state, widgets, last_run, filter_value_origin, runs_left, calc>>

Next ==
    \/ Rerun
    \/ SelectDatabase
    \/ SelectSchema
    \/ EnterManualService
    \/ SelectService
    \/ SelectModel
    \/ ToggleFilter
    \/ SelectFilterColumn
    \/ ClickRefresh
    \/ SelectFilterValue
    \/ EnterFilterValue
    \/ SlideNumChunks
    \/ SlideHistoryK
    \/ ClickClear
    \/ SubmitQuestion
    \/ CatalogChange

Spec == Init /\ [][Next]_vars

----------------------------------------------------------------------------
(* Sessions that only work the service selection and the filter, followed  *)
(* for more runs                                                           *)

\* the page is re-run while every external service answers
Reload ==
    /\ runs_left > 0
    /\ Run(NoEvent, QuietEnv("none", ResolverOk))

\* a question is submitted, found rows for and answered
Ask ==
    /\ Shown("chat_input")
    /\ \E res \in ResultLists, t \in Timestamps :
          Run(Event("chat_input", "q1"),
              [QuietEnv("none", ResolverOk) EXCEPT !.results = res,
                                                  !.complete_text = "answer", !.now = t])

InitFilter ==
    /\ session_state = EmptyDict
    /\ widgets = NoWidgets
    /\ catalog \in SUBSET (1..Len(ServiceRows))
    /\ last_run = NoRun
    /\ filter_value_origin = NoOrigin
    /\ runs_left = MaxFilterRuns
    /\ calc = NoCalc

NextFilter ==
    \/ Reload
    \/ EnterManualService
    \/ SelectService
    \/ ToggleFilter
    \/ SelectFilterColumn
    \/ ClickRefresh
    \/ SelectFilterValue
    \/ EnterFilterValue
    \/ Ask
    \/ CatalogChange

SpecFilter == InitFilter /\ [][NextFilter]_vars

----------------------------------------------------------------------------
(* The pure functions, each applied to inputs drawn from a bounded set     *)
(* while the session is at rest                                            *)

SessionAtRest ==
    /\ session_state = EmptyDict
    /\ widgets = NoWidgets
    /\ catalog = {}
    /\ last_run = NoRun
    /\ filter_value_origin = NoOrigin
    /\ runs_left = 0

\* a call of fn that has not returned yet
Call(fn, args) == [fn |-> fn, args |-> args, done |-> FALSE, out |-> None]

Returned(fn) == calc.fn = fn /\ calc.done

Return(out) ==
    /\ calc' = [calc EXCEPT !.done = TRUE, !.out = out]
    /\ UNCHANGED <<session_state, widgets, catalog, last_run, filter_value_origin,
                   runs_left>>

SeqsUpTo(S, n) == UNION {[1..m -> S] : m \in 0..n}

TurnOf(q, a) ==
    [timestamp |-> "2025-10-06T12:00:00", question |-> q, answer |-> a,
     model |-> MODELS[1], contexts |-> << >>]

HistoryTurns == {TurnOf("q1", "a1"), TurnOf("q2", "a2")}

InitHistory ==
    /\ SessionAtRest
    /\ calc \in {Call("build_history_text", [chat_history |-> h, k |-> k]) :
                    h \in SeqsUpTo(HistoryTurns, MaxLog), k \in 0..MaxK}

CallBuildHistoryText ==
    /\ calc.fn = "build_history_text"
    /\ ~calc.done
    /\ Return(build_history_text(calc.args.chat_history, calc.args.k))

SpecHistory == InitHistory /\ [][CallBuildHistoryText]_vars

\* line j of the text of the last m turns of a log
HistoryLine(log, m, j) ==
    IF j % 2 = 1 THEN "User: " \o log[Len(log) - m + (j + 1) \div 2].question
    ELSE "Assistant: " \o log[Len(log) - m + j \div 2].answer

\* C7: for every log and every k >= 0, build_history_text returns exactly the last
\* min(k, len(log)) turns in chronological order, each as the two lines
\* "User: {question}" and "Assistant: {answer}", joined by newlines; the empty string
\* when k = 0 or the log is empty.
C7_HistoryIsLastKTurns ==
    Returned("build_history_text") =>
        /\ calc.out
             = Join("\n", [j \in 1..(2 * Min(calc.args.k, Len(calc.args.chat_history))) |->
                              HistoryLine(calc.args.chat_history,
                                          Min(calc.args.k, Len(calc.args.chat_history)), j)])
        /\ (calc.args.k = 0 \/ Len(calc.args.chat_history) = 0) => calc.out = ""

\* 3 turns and k = 2 give turns 2 and 3 only
C7_Witness ==
    /\ Returned("build_history_text")
    /\ calc.args.k = 2
    /\ calc.args.chat_history = <<TurnOf("q1", "a1"), TurnOf("q2", "a2"), TurnOf("q1", "a1")>>
    /\ calc.out = "User: q2\nAssistant: a2\nUser: q1\nAssistant: a1"

RequestedLists ==
    { DefaultRequestColumns, <<"file_url">>, <<"FILE_URL", "chunk", "file_url">>,
      <<"language", "relative_path">> }

AvailableNames == {"chunk", "CHUNK", "FILE_URL", "language"}

SearchColumns == {"chunk", "Chunk", "language"}

InitColumns ==
    /\ SessionAtRest
    /\ calc \in {Call("request_columns",
                       [columns |-> c, search_col |-> sc, columns_available |-> a]) :
                    c \in RequestedLists, sc \in SearchColumns,
                    a \in SeqsUpTo(AvailableNames, MaxCols)}

CallRequestColumns ==
    /\ calc.fn = "request_columns"
    /\ ~calc.done
    /\ Return([intersection |->
                  intersect_preserving_order_caseaware(calc.args.columns,
                                                       calc.args.columns_available),
               request_columns |->
                  request_columns_of(calc.args.columns, calc.args.search_col,
                                     calc.args.columns_available)])

SpecColumns == InitColumns /\ [][CallRequestColumns]_vars

SameName(a, b) == Lower(a) = Lower(b)

\* the place of the first entry of s with the name of x
FirstNamed(x, s) ==
    CHOOSE i \in 1..Len(s) : SameName(s[i], x) /\ \A j \in 1..(i - 1) : ~SameName(s[j], x)

\* out is an order-preserving, case-aware intersection of candidates with allowed
IsIntersection(out, candidates, allowed) ==
    /\ \A i \in 1..Len(out) :
          /\ InSeq(out[i], allowed)
          /\ \E j \in 1..Len(candidates) : SameName(candidates[j], out[i])
    /\ \A j \in 1..Len(candidates) :
          (\E n \in 1..Len(allowed) : SameName(allowed[n], candidates[j]))
              => \E i \in 1..Len(out) : SameName(out[i], candidates[j])
    /\ \A i \in 1..Len(out) : \A j \in (i + 1)..Len(out) :
          /\ ~SameName(out[i], out[j])
          /\ FirstNamed(out[i], candidates) < FirstNamed(out[j], candidates)

\* C8: for every requested list, available list and search column, the request column
\* list contains the search column (case-insensitively); it is the order-preserving,
\* case-aware intersection of requested with available columns, with the search column
\* (in the case the service declares, if it declares it) put first when the
\* intersection lacks it.
C8_RequestColumnsHoldSearchColumn ==
    Returned("request_columns") =>
        /\ \E i \in 1..Len(calc.out.request_columns) :
              SameName(calc.out.request_columns[i], calc.args.search_col)
        /\ IsIntersection(calc.out.intersection, calc.args.columns,
                          calc.args.columns_available)
        /\ IF \E i \in 1..Len(calc.out.intersection) :
                 SameName(calc.out.intersection[i], calc.args.search_col)
           THEN calc.out.request_columns = calc.out.intersection
           ELSE /\ Tail(calc.out.request_columns) = calc.out.intersection
                /\ Len(calc.out.request_columns) = Len(calc.out.intersection) + 1
                /\ SameName(calc.out.request_columns[1], calc.args.search_col)
                /\ IF \E n \in 1..Len(calc.args.columns_available) :
                         SameName(calc.args.columns_available[n], calc.args.search_col)
                   THEN InSeq(calc.out.request_columns[1], calc.args.columns_available)
                   ELSE calc.out.request_columns[1] = calc.args.search_col

\* requested [chunk, file_url, relative_path], available [CHUNK, FILE_URL] and search
\* column chunk give [CHUNK, FILE_URL]
C8_Witness ==
    /\ Returned("request_columns")
    /\ calc.args.columns = <<"chunk", "file_url", "relative_path">>
    /\ calc.args.columns_available = <<"CHUNK", "FILE_URL">>
    /\ calc.args.search_col = "chunk"
    /\ calc.out.request_columns = <<"CHUNK", "FILE_URL">>

RECURSIVE Repeat(_, _)
Repeat(ch, n) ==
    IF n <= 0 THEN ""
    ELSE IF n = 1 THEN ch
    ELSE Repeat(ch, n \div 2) \o Repeat(ch, n - n \div 2)

Filler == Repeat("x", MaxChunkLen)

\* a chunk of n characters that starts with p pipes and ends with t pipes
ChunkOf(n, p, t) == Repeat("|", p) \o SubSeq(Filler, 1, n - p - t) \o Repeat("|", t)

\* lengths at both ends of the range: empty and short chunks, and chunks about the limit
ChunkLengths == (0..4) \cup ((ExcerptLimit - 2)..MaxChunkLen)

TableChunks ==
    {None} \cup {ChunkOf(n, p, t) : n \in {m \in ChunkLengths : m >= 3}, p \in 0..2, t \in 0..1}
           \cup {ChunkOf(n, 0, 0) : n \in ChunkLengths}

TableUrls == {None, "http://x/a|b.pdf"}

TableRow(chunk, url) ==
    [idx |-> 1, relative_path |-> "a|b.pdf", file_url |-> url, chunk |-> chunk,
     score |-> None]

InitTable ==
    /\ SessionAtRest
    /\ calc \in {Call("render_context_table_md", [context_rows |-> rows]) :
                    rows \in {<< >>} \cup {<<TableRow(c, u)>> : c \in TableChunks,
                                                                u \in TableUrls}}

CallRenderContextTableMd ==
    /\ calc.fn = "render_context_table_md"
    /\ ~calc.done
    /\ Return([md |-> render_context_table_md(calc.args.context_rows),
               excerpts |-> [i \in 1..Len(calc.args.context_rows) |->
                                head_disp(calc.args.context_rows[i])]])

SpecTable == InitTable /\ [][CallRenderContextTableMd]_vars

\* s with every pipe escaped
Escaped(s) == Join("\\|", Split(s, "|"))

Pipes(s) == Cardinality({i \in 1..Len(s) : CharAt(s, i) = "|"})

\* the chunk of a context row as text
ChunkText(r) == IF r.chunk = None THEN "" ELSE r.chunk

EndsWith(s, end) ==
    Len(s) >= Len(end) /\ SubSeq(s, Len(s) - Len(end) + 1, Len(s)) = end

\* C9 as stated: for every context row, an excerpt longer than 160 characters is
\* rendered ending with an ellipsis and is exactly 161 characters long including it; an
\* excerpt of at most 160 characters is rendered unchanged apart from escaped pipes.
C9_ExcerptIsExactly161 ==
    Returned("render_context_table_md") =>
        \A i \in 1..Len(calc.args.context_rows) :
            IF Len(ChunkText(calc.args.context_rows[i])) > ExcerptLimit
            THEN /\ EndsWith(calc.out.excerpts[i], Ellipsis)
                 /\ Len(calc.out.excerpts[i]) = ExcerptLimit + 1
            ELSE calc.out.excerpts[i] = Escaped(ChunkText(calc.args.context_rows[i]))

\* C9, amended: an excerpt longer than 160 characters is rendered as its first 160
\* characters with every pipe escaped, followed by an ellipsis, so it is 161 characters
\* long plus one for every pipe among its first 160 characters; an excerpt of at most
\* 160 characters is rendered unchanged apart from escaped pipes.  The table is its
\* header followed by one line per row that ends with the rendered excerpt.
C9_ExcerptIs161PlusEscapes ==
    Returned("render_context_table_md") =>
        /\ \A i \in 1..Len(calc.args.context_rows) :
              /\ IF Len(ChunkText(calc.args.context_rows[i])) > ExcerptLimit
                 THEN /\ calc.out.excerpts[i]
                           = Escaped(SubSeq(ChunkText(calc.args.context_rows[i]),
                                            1, ExcerptLimit)) \o Ellipsis
                      /\ Len(calc.out.excerpts[i])
                           = ExcerptLimit + 1
                             + Pipes(SubSeq(ChunkText(calc.args.context_rows[i]),
                                            1, ExcerptLimit))
                 ELSE calc.out.excerpts[i]
                        = Escaped(ChunkText(calc.args.context_rows[i]))
              /\ EndsWith(calc.out.md, " | " \o calc.out.excerpts[i] \o " |\n")
        /\ Len(calc.args.context_rows) = 0 => calc.out.md = ""

\* a chunk of more than 160 characters with pipes among the first 160 was rendered
C9_Witness ==
    /\ Returned("render_context_table_md")
    /\ Len(calc.args.context_rows) = 1
    /\ Len(ChunkText(calc.args.context_rows[1])) = ExcerptLimit + 1
    /\ Pipes(SubSeq(ChunkText(calc.args.context_rows[1]), 1, ExcerptLimit)) = 2
    /\ Len(calc.out.excerpts[1]) = ExcerptLimit + 3

\* result rows: the search column under its own name, in upper case and over two lines,
\* missing, and empty under its own name
ContextResultRows ==
    { [chunk |-> "one", relative_path |-> "a.pdf", file_url |-> "http://x/a.pdf"],
      [CHUNK |-> "two\nlines", RELATIVE_PATH |-> "b.pdf"],
      [body |-> "other"],
      [chunk |-> "", CHUNK |-> "upper", score |-> "0.5"] }

ContextSearchColumns == {"chunk", "Chunk"}

InitContext ==
    /\ SessionAtRest
    /\ calc \in {Call("build_context", [results |-> res, search_col |-> sc]) :
                    res \in SeqsUpTo(ContextResultRows, MaxResults),
                    sc \in ContextSearchColumns}

CallBuildContext ==
    /\ calc.fn = "build_context"
    /\ ~calc.done
    /\ Return(build_context(calc.args.results, calc.args.search_col))

SpecContext == InitContext /\ [][CallBuildContext]_vars

MaxSample == 3

\* the columns the fallback is asked to sample
SampleColumns == {"chunk", "CATEGORY", "language"}

\* the sample sizes of the calls: small ones and the resolver's own max_values
SampleSizes == (1..MaxSample) \cup {DistinctLimit}

InitSample ==
    /\ SessionAtRest
    /\ calc \in {Call("get_distinct_values_via_search",
                      [column |-> col, sample_size |-> n, handle_raises |-> h,
                       probe_raises |-> pr]) :
                    col \in SampleColumns, n \in SampleSizes, h \in BOOLEAN,
                    pr \in [1..Len(ProbeTerms) -> BOOLEAN]}

CallGetDistinctValuesViaSearch ==
    /\ calc.fn = "get_distinct_values_via_search"
    /\ ~calc.done
    /\ Return(get_distinct_values_via_search(calc.args.column, calc.args.sample_size,
                                             calc.args.handle_raises,
                                             calc.args.probe_raises))

SpecSample == InitSample /\ [][CallGetDistinctValuesViaSearch]_vars

\* the names a row may hold the search column under, in the order they are tried
TextKeys(search_col) == <<search_col, Lower(search_col), Upper(search_col)>>

HasText(r, key) == Has(r, key) /\ r[key] # None /\ r[key] # ""

\* the text of a result row: its first non-empty value under these names, else empty
TextOf(r, search_col) ==
    IF \E j \in 1..3 : HasText(r, TextKeys(search_col)[j])
    THEN r[TextKeys(search_col)[CHOOSE j \in 1..3 :
                                   /\ HasText(r, TextKeys(search_col)[j])
                                   /\ \A n \in 1..(j - 1) :
                                         ~HasText(r, TextKeys(search_col)[n])]]
    ELSE ""

EntryOf(i, text) == "Context document " \o ToString(i) \o ": " \o text \o "\n"

Newlines(s) == Cardinality({i \in 1..Len(s) : CharAt(s, i) = "\n"})

\* the newlines inside the texts of the rows, none of them longer than n
InnerNewlines(results, search_col, n) ==
    Cardinality({ij \in (1..Len(results)) \X (1..n) :
                    /\ ij[2] <= Len(TextOf(results[ij[1]], search_col))
                    /\ CharAt(TextOf(results[ij[1]], search_col), ij[2]) = "\n"})

\* the context rows carry the 1-based indices and the texts of the result rows, in order
RowsAreParallel ==
    /\ Len(calc.out.context_rows) = Len(calc.args.results)
    /\ \A i \in 1..Len(calc.args.results) :
          /\ calc.out.context_rows[i].idx = i
          /\ calc.out.context_rows[i].chunk
                = TextOf(calc.args.results[i], calc.args.search_col)

\* C10 as stated: the context text block has exactly as many lines as there are rows,
\* line i is exactly "Context document {i}: {text of row i}" followed by a newline, and
\* the context rows carry the same 1-based indices in the same order.
C10_OneLinePerRow ==
    Returned("build_context") =>
        /\ Split(calc.out.context_text, "\n")
             = [i \in 1..(Len(calc.args.results) + 1) |->
                   IF i <= Len(calc.args.results)
                   THEN "Context document " \o ToString(i) \o ": "
                        \o TextOf(calc.args.results[i], calc.args.search_col)
                   ELSE ""]
        /\ RowsAreParallel

\* C10, amended: the context text block is the concatenation, in result order, of one
\* entry per row, entry i being "Context document {i}: {text of row i}" followed by a
\* newline; it has one line per row plus one for every newline inside a row's text, so
\* as many lines as rows exactly when no text holds a newline; the context rows carry
\* the same 1-based indices and texts in the same order.
C10_OneEntryPerRow ==
    Returned("build_context") =>
        /\ calc.out.lines
             = [i \in 1..Len(calc.args.results) |->
                   EntryOf(i, TextOf(calc.args.results[i], calc.args.search_col))]
        /\ calc.out.context_text = Concat(calc.out.lines)
        /\ Newlines(calc.out.context_text)
             = Len(calc.args.results)
               + InnerNewlines(calc.args.results, calc.args.search_col,
                               Len(calc.out.context_text))
        /\ RowsAreParallel

\* three rows, the second with a text of two lines found under the upper-case name
C10_Witness ==
    /\ Returned("build_context")
    /\ Len(calc.args.results) = 3
    /\ calc.args.search_col = "chunk"
    /\ calc.out.context_rows[2].chunk = "two\nlines"
    /\ Newlines(calc.out.context_text) = 4

----------------------------------------------------------------------------
(* The conversation log over the runs of a session *)

Log(ss) == GetOr(ss, "chat_history", << >>)

\* a run of the script has just ended
RunEnded == runs_left' # runs_left

\* the log after the run is the log before it with one turn appended
Appended(old, new) ==
    /\ Len(new) = Len(old) + 1
    /\ SubSeq(new, 1, Len(old)) = old

\* catalog statements whose failure is an external-call failure of the sidebar
CatalogCalls == CatalogFails \ {"none"}

\* C1: when a question is submitted with a service selected and the completion call
\* raises, the run appends exactly one Turn whose question is the submitted question and
\* whose answer is exactly the error text shown to the user; earlier Turns are unchanged.
C1_FailedCompletionIsLogged ==
    [][(RunEnded /\ last_run'.complete_raised) =>
          /\ Appended(Log(session_state), Log(session_state'))
          /\ Log(session_state')[Len(Log(session_state'))].question = last_run'.asked
          /\ last_run'.shown
                = << Log(session_state')[Len(Log(session_state'))].answer >>
          /\ last_run'.asked \in Questions]_vars

\* a failed completion was logged behind an earlier turn
C1_Witness ==
    /\ last_run.complete_raised
    /\ Len(Log(session_state)) >= 2
    /\ Log(session_state)[Len(Log(session_state))].answer
          = CompleteErrorPrefix \o "timeout"

\* C2: the conversation log starts empty, and every run leaves it unchanged, appends
\* exactly one Turn at its end, or empties it after a click on the clear button; no
\* existing Turn is edited, reordered or removed on its own.
C2_LogGrowsByAppendOrClear ==
    /\ Log(session_state) = << >>
    /\ [][\/ Log(session_state') = Log(session_state)
          \/ Appended(Log(session_state), Log(session_state'))
          \/ /\ RunEnded
             /\ last_run'.cleared
             /\ Log(session_state') = << >>]_vars

\* two turns with different questions are in the log, in the order they were asked
C2_Witness ==
    /\ Len(Log(session_state)) >= 2
    /\ Log(session_state)[1].question # Log(session_state)[2].question
    /\ last_run.asked = Log(session_state)[2].question

\* C3: in a run in which discovery finds no service and no manual name is entered, the
\* blocking prompt is shown and the pipeline does not execute: no search call, no
\* completion call, no Turn, whatever was selected in earlier runs.
C3_NoServiceBlocksPipeline ==
    (/\ last_run.outcome # "none"
     /\ last_run.raised_in \notin CatalogCalls
     /\ ~last_run.services_found
     /\ ~last_run.manual_entered)
    => (/\ last_run.outcome = "blocked"
        /\ last_run.shown = <<InfoSelectService>>
        /\ last_run.requests = << >>
        /\ last_run.prompts = << >>)

\* the column a filter compares
FilterColumns(filter) ==
    IF filter = NoFilter THEN {} ELSE DOMAIN filter["@eq"]

\* the requests of the last run that carry an equality filter
FilteredRequests ==
    {i \in 1..Len(last_run.requests) : last_run.requests[i].filter # NoFilter}

\* C4: whenever a submitted question's search request carries an equality filter, the
\* filter's column is (case-insensitively) one of the available columns of the service
\* descriptor that is active in that run.
C4_FilterColumnOfActiveService ==
    \A i \in FilteredRequests :
        \A col \in FilterColumns(last_run.requests[i].filter) :
            \E j \in 1..Len(session_state["selected_cortex_meta"].columns_available) :
                Lower(session_state["selected_cortex_meta"].columns_available[j])
                    = Lower(col)

\* C5: after the selected service or the filter column changes, no search is issued with
\* a filter value chosen under the previous service or column unless the user chooses a
\* value again, and the offered values are those resolved for the present service and
\* column.
C5_NoStaleFilterValue ==
    /\ \A i \in FilteredRequests :
          /\ filter_value_origin.service
                = session_state["selected_cortex_search_service"]
          /\ filter_value_origin.column
                \in FilterColumns(last_run.requests[i].filter)
    /\ Shown("filter_value") =>
          /\ session_state["_last_service_key"]
                = session_state["selected_cortex_search_service"]
          /\ session_state["_last_filter_column"] = session_state["filter_column"]

\* C6: no failure of an external call (catalog statements, service description,
\* distinct-value lookup, similarity search, completion) ends a run with an unhandled
\* exception.
C6_NoExternalFailureEndsRun ==
    last_run.outcome = "raised" => last_run.raised_in \notin CatalogCalls \cup {"search"}

\* the session configuration the question pipeline reads is initialised and in range
ConfigInRange(ss) ==
    /\ Has(ss, "num_retrieved_chunks")
    /\ ss["num_retrieved_chunks"] \in NumChunksMin..NumChunksMax
    /\ Has(ss, "history_k")
    /\ ss["history_k"] \in HistoryKMin..HistoryKMax
    /\ Has(ss, "selected_model")
    /\ InSeq(ss["selected_model"], MODELS)

\* C11: whenever the question pipeline executes (a question is submitted in a run that
\* has a service selected, a manually entered one in a fresh session included), the
\* number of chunks is an integer in 1..10, the history window k is an integer in
\* 0..10, and the selected model is one of the configured models.
C11_PipelineConfigInitialised ==
    last_run.asked # "" => ConfigInRange(session_state)

\* the values held when the probe terms are tried in order, a failing probe is skipped,
\* and collection goes on until sample_size values are held or no probe term is left
RECURSIVE CollectedAcrossProbes(_, _, _, _, _)
CollectedAcrossProbes(i, column, values, sample_size, probe_raises) ==
    IF i > Len(ProbeTerms) \/ Len(values) >= sample_size THEN values
    ELSE IF probe_raises[i]
    THEN CollectedAcrossProbes(i + 1, column, values, sample_size, probe_raises)
    ELSE CollectedAcrossProbes(i + 1, column,
                               sample_results(SampleRows(column, ProbeTerms[i]), column,
                                              values, sample_size),
                               sample_size, probe_raises)

\* C12: in the search-sampling fallback the probe terms are tried in their fixed order
\* and values keep being collected across probes until max_values distinct values are
\* held or every probe term has been tried (a failing probe is skipped); collection
\* does not stop earlier.
C12_CollectsUntilFullOrExhausted ==
    (Returned("get_distinct_values_via_search") /\ ~calc.args.handle_raises)
    => calc.out = CollectedAcrossProbes(1, calc.args.column, << >>,
                                        calc.args.sample_size, calc.args.probe_raises)

====
